---- MODULE Spec2Model ----
(***************************************************************************)
(* Polynomial evaluation in Assignment1_Notes_and_Questions.ipynb:         *)
(* poly_eval_basic_forward (direct summation, cell 1) and                  *)
(* poly_eval_basic_reverse (Horner's method, cell 3), run on one pair of   *)
(* arguments (x, coeff) as the notebook does in cells 2, 4, 7 and 11.      *)
(*                                                                         *)
(* Numbers are exact rationals <<num, den>>.  The evaluation points and    *)
(* coefficients of the model are small dyadic rationals, for which IEEE    *)
(* double arithmetic is exact, so the values computed here are the values  *)
(* the Python code computes on these inputs (Spec).  The evaluation of     *)
(* cell 7 at x = 0.1, where doubles round, is modelled with IEEE double    *)
(* arithmetic (FloatSpec), and sin_eval_taylor, of which the notebook has  *)
(* only the signature, from its specification (TaylorSpec).                *)
(***************************************************************************)
EXTENDS Integers, Sequences, FiniteSets, TLC

VARIABLES x, coeff, pc, result, iter, it, ops, order, p1, p2, ncoeff, p3

vars == <<x, coeff, pc, result, iter, it, ops, order, p1, p2, ncoeff, p3>>

(* ------------------------------ bounds -------------------------------- *)
\* longest coefficient sequence drawn freely (degree MaxLen - 1)
MaxLen == 3
\* coefficients are drawn from -1 .. MaxCoeff
MaxCoeff == 1
\* longest numpy array of evaluation points
MaxPts == 2
\* largest number of terms asked of the Taylor evaluator
MaxTerms == 4

(* ------------------------- exact rational numbers ---------------------- *)
Abs(a) == IF a < 0 THEN -a ELSE a

RECURSIVE GCD(_, _)
GCD(a, b) == IF b = 0 THEN a ELSE GCD(b, a % b)

Norm(n, d) ==
    LET g == GCD(Abs(n), Abs(d))
        s == IF d < 0 THEN -1 ELSE 1
    IN  <<(s * n) \div g, (s * d) \div g>>

Zero == <<0, 1>>
One == <<1, 1>>
Half == <<1, 2>>

RAdd(a, b) == Norm(a[1] * b[2] + b[1] * a[2], a[2] * b[2])
RMul(a, b) == Norm(a[1] * b[1], a[2] * b[2])

\* mutant: a power that takes 0**0 to be 0
RECURSIVE RPowZeroBase(_, _)
RPowZeroBase(a, n) ==
    IF a[1] = 0 THEN Zero
    ELSE IF n = 0 THEN One ELSE RMul(a, RPowZeroBase(a, n - 1))

\* Python's x**n for an integer n >= 0; 0**0 and 0.0**0 are 1
RECURSIVE RPow(_, _)
RPow(a, n) == IF n = 0 THEN One ELSE RMul(a, RPow(a, n - 1))

(* --------------- Python scalars and numpy arrays (broadcasting) -------- *)
Scalar(q) == [shape |-> "scalar", v |-> <<q>>]
Array(s) == [shape |-> "array", v |-> s]
Num(c) == Scalar(<<c, 1>>)

IsArray(a) == a.shape = "array"
Elem(a, i) == IF IsArray(a) THEN a.v[i] ELSE a.v[1]

\* a binary arithmetic operator: scalar op scalar is a scalar, and an array
\* operand broadcasts the operator over its elements
VAdd(a, b) ==
    IF IsArray(a) \/ IsArray(b)
    THEN LET k == IF IsArray(a) THEN Len(a.v) ELSE Len(b.v)
         IN  Array([i \in 1..k |-> RAdd(Elem(a, i), Elem(b, i))])
    ELSE Scalar(RAdd(a.v[1], b.v[1]))

VMul(a, b) ==
    IF IsArray(a) \/ IsArray(b)
    THEN LET k == IF IsArray(a) THEN Len(a.v) ELSE Len(b.v)
         IN  Array([i \in 1..k |-> RMul(Elem(a, i), Elem(b, i))])
    ELSE Scalar(RMul(a.v[1], b.v[1]))

VPow(a, n) ==
    IF IsArray(a)
    THEN Array([i \in 1..Len(a.v) |-> RPow(a.v[i], n)])
    ELSE Scalar(RPow(a.v[1], n))

(* ------------------------------ inputs -------------------------------- *)
SeqsUpTo(S, n) == UNION {[1..k -> S] : k \in 0..n}

CoeffVals == -1..MaxCoeff
\* the coefficient list of cells 2 and 4
KnownCoeff == <<0, 1, 2, 3, 4, 5>>
CoeffInputs == SeqsUpTo(CoeffVals, MaxLen) \cup {KnownCoeff}

\* scalar evaluation points, and the elements of the numpy arrays
XVals == {<<-1, 1>>, Zero, Half, <<2, 1>>}
ArrVals == {Half, <<2, 1>>}
XInputs ==
    {Scalar(q) : q \in XVals}
        \cup {Array(s) : s \in (SeqsUpTo(ArrVals, MaxPts) \ {<<>>})}

(* --------------------------- call outcomes ---------------------------- *)
NoOps == [mul |-> 0, add |-> 0, pow |-> 0]
Cleared == Scalar(Zero)
None == [kind |-> "none", val |-> Cleared, exc |-> "", ops |-> NoOps, order |-> <<>>]
Returned(val, o, ord) ==
    [kind |-> "value", val |-> val, exc |-> "", ops |-> o, order |-> ord]
Raised(exc) ==
    [kind |-> "raise", val |-> Cleared, exc |-> exc, ops |-> NoOps, order |-> <<>>]

(* ------------------------- the running call --------------------------- *)
\* the arguments (references to the caller's objects) and the locals
Frame ==
    [x |-> x, coeff |-> coeff, result |-> result, iter |-> iter, it |-> it,
     ops |-> ops]

SetFrame(f) ==
    /\ x' = f.x
    /\ coeff' = f.coeff
    /\ result' = f.result
    /\ iter' = f.iter
    /\ it' = f.it
    /\ ops' = f.ops

ClearLocals ==
    /\ result' = Cleared
    /\ iter' = <<>>
    /\ it' = 0
    /\ ops' = NoOps
    /\ order' = <<>>

(* ---------------------- poly_eval_basic_forward ----------------------- *)
\* mutant: enumerate(coeff, 1)
EnumerateFromOne(s) == [k \in 1..Len(s) |-> <<k, s[k]>>]

\* enumerate(coeff): the pairs (n, c), n counted from 0
Enumerate(s) == [k \in 1..Len(s) |-> <<k - 1, s[k]>>]

\* mutant: c * x**(n+1)
ForwardTermOffByOne(c, xv, n) == VMul(Num(c), VPow(xv, n + 1))

\* c * x**n
ForwardTerm(c, xv, n) == VMul(Num(c), VPow(xv, n))

\* result = 0.0 ; for n,c in enumerate(coeff):
ForwardEntry(f) ==
    [f EXCEPT !.result = Scalar(Zero), !.iter = Enumerate(f.coeff), !.it = 0,
              !.ops = NoOps]

\* result = result + c * x**n
ForwardBody(f) ==
    LET n == f.iter[f.it + 1][1]
        c == f.iter[f.it + 1][2]
    IN  [f EXCEPT !.result = VAdd(f.result, ForwardTerm(c, f.x, n)),
                  !.it = f.it + 1,
                  !.ops = [mul |-> f.ops.mul + 1, add |-> f.ops.add + 1,
                           pow |-> f.ops.pow + 1]]

CallForward ==
    /\ pc = "idle"
    /\ pc' = "forward"
    /\ SetFrame(ForwardEntry(Frame))
    /\ order' = <<>>
    /\ UNCHANGED <<p1, p2, ncoeff, p3>>

ForwardStep ==
    /\ pc = "forward"
    /\ it < Len(iter)
    /\ SetFrame(ForwardBody(Frame))
    /\ order' = Append(order, iter[it + 1][1])
    /\ UNCHANGED <<pc, p1, p2, ncoeff, p3>>

ForwardReturn ==
    /\ pc = "forward"
    /\ it >= Len(iter)
    /\ p1' = Returned(result, ops, order)
    /\ pc' = "idle"
    /\ ClearLocals
    /\ UNCHANGED <<x, coeff, p2, ncoeff, p3>>

(* ---------------------- poly_eval_basic_reverse ----------------------- *)
\* mutant: the slice [::-1], which starts at the last position
RevIndicesFull(L) == [k \in 1..L |-> L - k]

\* mutant: the slice [-2:0:-1], which stops before position 0
RevIndicesStopZero(L) ==
    LET start == IF L - 2 < 0 THEN -1 ELSE L - 2
    IN  [k \in 1..(IF start < 1 THEN 0 ELSE start) |-> start + 1 - k]

\* the positions (counted from 0) that the slice [-2::-1] of a sequence of
\* length L selects: a start below 0 is clamped to -1, which selects nothing
RevIndices(L) ==
    LET start == IF L - 2 < 0 THEN -1 ELSE L - 2
    IN  [k \in 1..(start + 1) |-> start + 1 - k]

\* coeff[-2::-1]
RevSlice(s) ==
    LET idx == RevIndices(Len(s)) IN [k \in 1..Len(idx) |-> s[idx[k] + 1]]

\* mutant: result = coeff[0]
ReverseEntryFirst(f) ==
    [f EXCEPT !.result = Num(f.coeff[1]), !.iter = RevSlice(f.coeff),
              !.it = 0, !.ops = NoOps]

\* result = coeff[-1] ; for c in coeff[-2::-1]:
ReverseEntry(f) ==
    [f EXCEPT !.result = Num(f.coeff[Len(f.coeff)]), !.iter = RevSlice(f.coeff),
              !.it = 0, !.ops = NoOps]

\* mutant: result = (result + c) * x
ReverseBodyAddFirst(f) ==
    LET c == f.iter[f.it + 1]
    IN  [f EXCEPT !.result = VMul(VAdd(f.result, Num(c)), f.x),
                  !.it = f.it + 1,
                  !.ops = [mul |-> f.ops.mul + 1, add |-> f.ops.add + 1,
                           pow |-> f.ops.pow]]

\* mutant: result = result * x**1 + c
ReverseBodyPow(f) ==
    LET c == f.iter[f.it + 1]
    IN  [f EXCEPT !.result = VAdd(VMul(f.result, VPow(f.x, 1)), Num(c)),
                  !.it = f.it + 1,
                  !.ops = [mul |-> f.ops.mul + 1, add |-> f.ops.add + 1,
                           pow |-> f.ops.pow + 1]]

\* mutant: x *= result ; x += c ; result = x  (accumulates in the argument)
ReverseBodyInPlace(f) ==
    LET c == f.iter[f.it + 1]
        acc == VAdd(VMul(f.result, f.x), Num(c))
    IN  [f EXCEPT !.result = acc,
                  !.x = acc,
                  !.it = f.it + 1,
                  !.ops = [mul |-> f.ops.mul + 1, add |-> f.ops.add + 1,
                           pow |-> f.ops.pow]]

\* result = result * x + c
ReverseBody(f) ==
    LET c == f.iter[f.it + 1]
    IN  [f EXCEPT !.result = VAdd(VMul(f.result, f.x), Num(c)),
                  !.it = f.it + 1,
                  !.ops = [mul |-> f.ops.mul + 1, add |-> f.ops.add + 1,
                           pow |-> f.ops.pow]]

CallReverse ==
    /\ pc = "idle"
    /\ Len(coeff) > 0
    /\ pc' = "reverse"
    /\ SetFrame(ReverseEntry(Frame))
    /\ order' = <<>>
    /\ UNCHANGED <<p1, p2, ncoeff, p3>>

\* mutant: an empty sequence evaluates to 0.0, as the empty sum
CallReverseEmptyZero ==
    /\ pc = "idle"
    /\ Len(coeff) = 0
    /\ p2' = Returned(Scalar(Zero), NoOps, <<>>)
    /\ UNCHANGED <<x, coeff, pc, result, iter, it, ops, order, p1, ncoeff, p3>>

\* coeff[-1] of an empty sequence raises IndexError
CallReverseRaise ==
    /\ pc = "idle"
    /\ Len(coeff) = 0
    /\ p2' = Raised("IndexError")
    /\ UNCHANGED <<x, coeff, pc, result, iter, it, ops, order, p1, ncoeff, p3>>

ReverseStep ==
    /\ pc = "reverse"
    /\ it < Len(iter)
    /\ SetFrame(ReverseBody(Frame))
    /\ order' = Append(order, RevIndices(Len(coeff))[it + 1])
    /\ UNCHANGED <<pc, p1, p2, ncoeff, p3>>

ReverseReturn ==
    /\ pc = "reverse"
    /\ it >= Len(iter)
    /\ p2' = Returned(result, ops, order)
    /\ pc' = "idle"
    /\ ClearLocals
    /\ UNCHANGED <<x, coeff, p1, ncoeff, p3>>

(* --------------------------- specification ---------------------------- *)
Init ==
    /\ x \in XInputs
    /\ coeff \in CoeffInputs
    /\ pc = "idle"
    /\ result = Cleared
    /\ iter = <<>>
    /\ it = 0
    /\ ops = NoOps
    /\ order = <<>>
    /\ p1 = None
    /\ p2 = None
    /\ ncoeff = 0
    /\ p3 = None

Next ==
    \/ CallForward
    \/ ForwardStep
    \/ ForwardReturn
    \/ CallReverse
    \/ CallReverseRaise
    \/ ReverseStep
    \/ ReverseReturn

Spec == Init /\ [][Next]_vars

(* ------------- whole calls, as functions of the arguments ------------- *)
NewFrame(xv, s) ==
    [x |-> xv, coeff |-> s, result |-> Cleared, iter |-> <<>>, it |-> 0,
     ops |-> NoOps]

RECURSIVE ForwardLoop(_)
ForwardLoop(f) == IF f.it < Len(f.iter) THEN ForwardLoop(ForwardBody(f)) ELSE f

\* poly_eval_basic_forward(xv, s)
ForwardEval(xv, s) == ForwardLoop(ForwardEntry(NewFrame(xv, s))).result

RECURSIVE ReverseLoop(_)
ReverseLoop(f) == IF f.it < Len(f.iter) THEN ReverseLoop(ReverseBody(f)) ELSE f

\* poly_eval_basic_reverse(xv, s), for a non-empty s
ReverseEval(xv, s) == ReverseLoop(ReverseEntry(NewFrame(xv, s))).result

(* ------------------ the polynomial of the notebook's text -------------- *)
\* P(x) = sum over n = 0..N of a_n x^n, at the rational q
RECURSIVE PolySum(_, _)
PolySum(s, q) ==
    IF s = <<>>
    THEN Zero
    ELSE RAdd(PolySum(SubSeq(s, 1, Len(s) - 1), q),
              RMul(<<s[Len(s)], 1>>, RPow(q, Len(s) - 1)))

\* ((c_N*x + c_(N-1))*x + c_(N-2))*x ... + c_0, at the rational q
RECURSIVE Nested(_, _)
Nested(s, q) ==
    IF Len(s) = 1
    THEN <<s[1], 1>>
    ELSE RAdd(RMul(Nested(Tail(s), q), q), <<s[1], 1>>)

Degree == Len(coeff) - 1
Points == 1..Len(x.v)
Ascending(k) == [i \in 1..k |-> i - 1]
Descending(k) == [i \in 1..k |-> k - i]

(* ------------------------------ claims -------------------------------- *)

\* C1: for every non-empty coefficient sequence and every evaluation point,
\* poly_eval_basic_forward and poly_eval_basic_reverse return the same value
\* under exact arithmetic (hence within any relative tolerance).
C1_ForwardReverseAgree ==
    (Len(coeff) >= 1 /\ p1.kind = "value" /\ p2.kind = "value")
        => /\ \A i \in Points : Elem(p1.val, i) = Elem(p2.val, i)
           /\ (~IsArray(x) => p1.val = p2.val)

C1_Witness ==
    /\ Len(coeff) = MaxLen
    /\ ~IsArray(x)
    /\ x.v[1] = Half
    /\ p1.kind = "value"
    /\ p2.kind = "value"
    /\ p1.val # Num(coeff[1])

\* C2: poly_eval_basic_forward visits n = 0..N in increasing order, holds the
\* partial sum of a_n * x^n after each step, and returns
\* P(x) = sum over n = 0..N of a_n * x^n.
C2_ForwardIsPolySum ==
    /\ pc = "forward"
        => /\ order = Ascending(it)
           /\ \A i \in Points :
                Elem(result, i) = PolySum(SubSeq(coeff, 1, it), x.v[i])
    /\ (Len(coeff) >= 1 /\ p1.kind = "value")
        => /\ p1.order = Ascending(Len(coeff))
           /\ p1.val.shape = x.shape
           /\ \A i \in Points : Elem(p1.val, i) = PolySum(coeff, x.v[i])

C2_Witness ==
    /\ Len(coeff) = MaxLen
    /\ coeff[MaxLen] # 0
    /\ ~IsArray(x)
    /\ x.v[1] = <<2, 1>>
    /\ p1.kind = "value"

\* C3: poly_eval_basic_reverse starts with result = a_N, visits a_(N-1), ...,
\* a_0 in that order, each exactly once, and returns the nested form
\* ((a_N*x + a_(N-1))*x + ...)*x + a_0, which equals the sum of a_n * x^n.
C3_ReverseIsHorner ==
    /\ (pc = "reverse" /\ it = 0) => result = Num(coeff[Len(coeff)])
    /\ pc = "reverse" => order = SubSeq(Descending(Degree), 1, it)
    /\ p2.kind = "value"
        => /\ p2.order = Descending(Degree)
           /\ \A i \in Points :
                /\ Elem(p2.val, i) = Nested(coeff, x.v[i])
                /\ Elem(p2.val, i) = PolySum(coeff, x.v[i])

C3_Witness ==
    /\ Len(coeff) = MaxLen
    /\ coeff[MaxLen] # 0
    /\ coeff[1] # 0
    /\ ~IsArray(x)
    /\ x.v[1] = <<2, 1>>
    /\ p2.kind = "value"

\* the value printed by cells 2 and 4: 1.78125
KnownValue == Norm(178125, 100000)

\* C4: at x = 0.5 with coefficients [0,1,2,3,4,5] both evaluators return
\* exactly 1.78125 = 57/32.
C4_KnownValue ==
    (x = Scalar(Half) /\ coeff = KnownCoeff)
        => /\ p1.kind = "value" => p1.val = Scalar(KnownValue)
           /\ p2.kind = "value" => p2.val = Scalar(KnownValue)
           /\ KnownValue = <<57, 32>>

C4_Witness ==
    /\ x = Scalar(Half)
    /\ coeff = KnownCoeff
    /\ p1.kind = "value"
    /\ p2.kind = "value"

\* C5: poly_eval_basic_forward called with an empty coefficient sequence
\* signals an error and returns no numeric result.
C5_ForwardRejectsEmpty ==
    Len(coeff) = 0 => p1.kind \in {"none", "raise"}

\* the exception kinds the two evaluators raise on a call
ErrorKinds == {"IndexError"}

C7_VectorMapping ==
    (IsArray(x) /\ Len(coeff) >= 1)
        => /\ p1.kind = "value"
                => /\ IsArray(p1.val)
                   /\ Len(p1.val.v) = Len(x.v)
                   /\ \A i \in Points :
                        p1.val.v[i] = ForwardEval(Scalar(x.v[i]), coeff).v[1]
           /\ p2.kind = "value"
                => /\ IsArray(p2.val)
                   /\ Len(p2.val.v) = Len(x.v)
                   /\ \A i \in Points :
                        p2.val.v[i] = ReverseEval(Scalar(x.v[i]), coeff).v[1]

\* C8: for a single coefficient c, poly_eval_basic_reverse(x, [c]) returns c
\* for any x, scalar or collection, and the loop body runs zero times.
C8_DegreeZero ==
    Len(coeff) = 1
        => /\ pc = "reverse" => (it = 0 /\ iter = <<>> /\ ops = NoOps)
           /\ p2.kind = "value" => /\ p2.val = Num(coeff[1])
                                   /\ p2.ops = NoOps
                                   /\ p2.order = <<>>

C8_Witness ==
    /\ Len(coeff) = 1
    /\ coeff[1] # 0
    /\ IsArray(x)
    /\ Len(x.v) = MaxPts
    /\ p2.kind = "value"

Total(o) == o.mul + o.add + o.pow

\* C9: on a scalar x and N+1 coefficients, poly_eval_basic_reverse runs at
\* most N loop steps and returns after exactly N multiplications, N additions
\* and no exponentiation, strictly fewer operations than
\* poly_eval_basic_forward performs on the same input.
C9_OperationCount ==
    ~IsArray(x)
        => /\ pc = "reverse"
                => /\ it <= Degree
                   /\ ops = [mul |-> it, add |-> it, pow |-> 0]
           /\ p2.kind = "value"
                => p2.ops = [mul |-> Degree, add |-> Degree, pow |-> 0]
           /\ (p1.kind = "value" /\ p2.kind = "value")
                => Total(p2.ops) < Total(p1.ops)

C9_Witness ==
    /\ ~IsArray(x)
    /\ Len(coeff) = MaxLen
    /\ p1.kind = "value"
    /\ p2.kind = "value"

\* C10: a call leaves x and coeff unchanged, starts from fresh locals, and
\* returns a result that is a function of (x, coeff) alone: a later call with
\* the same arguments returns what the earlier one returned, whatever calls
\* were made in between.
C10_Purity ==
    [][/\ x' = x
       /\ coeff' = coeff
       /\ (pc = "idle" /\ pc' = "forward")
            => Frame' = ForwardEntry(NewFrame(x, coeff))
       /\ (pc = "idle" /\ pc' = "reverse")
            => Frame' = ReverseEntry(NewFrame(x, coeff))
       /\ p1.kind # "none" => p1' = p1
       /\ p2.kind # "none" => p2' = p2
       /\ (p1' # p1 /\ p1'.kind = "value") => p1'.val = ForwardEval(x, coeff)
       /\ (p2' # p2 /\ p2'.kind = "value") => p2'.val = ReverseEval(x, coeff)]_vars

\* a repeated call of the forward evaluator is about to return, after both
\* evaluators have returned once
C10_Witness ==
    /\ p1.kind = "value"
    /\ p2.kind = "value"
    /\ pc = "forward"
    /\ Len(coeff) >= 2
    /\ it = Len(iter)

\* the top k+1 coefficients a_(N-k) .. a_N
TopCoeff(k) == SubSeq(coeff, Len(coeff) - k, Len(coeff))

\* C13: after k iterations of the loop of poly_eval_basic_reverse the
\* accumulator is the sum over j = 0..k of a_(N-k+j) * x^j, the value at x of
\* the polynomial of the top k+1 coefficients; after N iterations it is P(x).
C13_HornerInvariant ==
    /\ pc = "reverse"
        => /\ it \in 0..Degree
           /\ \A i \in Points :
                Elem(result, i) = PolySum(TopCoeff(it), x.v[i])
    /\ p2.kind = "value"
        => /\ Len(p2.order) = Degree
           /\ \A i \in Points : Elem(p2.val, i) = PolySum(TopCoeff(Degree), x.v[i])

C13_Witness ==
    /\ pc = "reverse"
    /\ Len(coeff) = MaxLen
    /\ it = 1
    /\ coeff[MaxLen] # 0
    /\ coeff[MaxLen - 1] # 0
    /\ ~IsArray(x)
    /\ x.v[1] = <<2, 1>>

\* C14: at x = 0 both evaluators return a_0 for every non-empty coefficient
\* sequence (the forward one because its n = 0 term uses 0**0 = 1).
C14_AtZero ==
    (x = Scalar(Zero) /\ Len(coeff) >= 1)
        => /\ p1.kind = "value" => p1.val = Num(coeff[1])
           /\ p2.kind = "value" => p2.val = Num(coeff[1])
           /\ (pc = "forward" /\ it >= 1) => result = Num(coeff[1])

C14_Witness ==
    /\ x = Scalar(Zero)
    /\ Len(coeff) = MaxLen
    /\ coeff[1] # 0
    /\ coeff[MaxLen] # 0
    /\ p1.kind = "value"
    /\ p2.kind = "value"

(***************************************************************************)
(* IEEE double arithmetic, for the evaluation at x = 0.1 of cell 7.        *)
(* A natural number is a sequence of limbs in base 2^14, least significant *)
(* first, without leading zero limbs.  A double is [m, e], of value        *)
(* m * 2^e, with m of exactly 53 bits (or m = 0, e = 0).  All values of    *)
(* cell 7 are non-negative and normal, so sign, subnormals, infinities and *)
(* NaN are left out.                                                       *)
(***************************************************************************)
LimbBits == 14
Base == 16384
MantBits == 53

RECURSIVE Strip(_)
Strip(a) ==
    IF a # <<>> /\ a[Len(a)] = 0 THEN Strip(SubSeq(a, 1, Len(a) - 1)) ELSE a

RECURSIVE BigOfInt(_)
BigOfInt(n) == IF n = 0 THEN <<>> ELSE <<n % Base>> \o BigOfInt(n \div Base)

Limb(a, i) == IF i >= 1 /\ i <= Len(a) THEN a[i] ELSE 0

\* the number of the column sums c (each below 2^31 - Base), in limbs: every
\* round leaves the low part of a column and moves the rest one column up
RECURSIVE Carry(_)
Carry(c) ==
    IF \A i \in 1..Len(c) : c[i] < Base
    THEN Strip(c)
    ELSE Carry([i \in 1..(Len(c) + 1) |->
                  (Limb(c, i) % Base) + (Limb(c, i - 1) \div Base)])

BigAdd(a, b) ==
    LET n == IF Len(a) > Len(b) THEN Len(a) ELSE Len(b)
    IN  Carry([i \in 1..n |-> Limb(a, i) + Limb(b, i)])

\* a - b, for a >= b: a plus the complement of b plus 1, less Base^Len(a)
BigSub(a, b) ==
    LET n == Len(a)
        c == Carry([i \in 1..n |->
                      a[i] + (Base - 1 - Limb(b, i)) + (IF i = 1 THEN 1 ELSE 0)])
    IN  Strip(SubSeq(c, 1, n))

\* a * b, for b of at most 4 limbs (a column sum then stays below 2^30)
MulShort(a, b) ==
    Carry([k \in 1..(Len(a) + Len(b)) |->
             Limb(a, k) * Limb(b, 1) + Limb(a, k - 1) * Limb(b, 2)
                + Limb(a, k - 2) * Limb(b, 3) + Limb(a, k - 3) * Limb(b, 4)])

\* a * b, one of them of at most 4 limbs
BigMul(a, b) ==
    IF a = <<>> \/ b = <<>> THEN <<>>
    ELSE IF Len(b) <= 4 THEN MulShort(a, b) ELSE MulShort(b, a)

ZeroLimbs(k) == [i \in 1..k |-> 0]

RECURSIVE Pow2(_)
Pow2(k) == IF k = 0 THEN 1 ELSE 2 * Pow2(k - 1)

RECURSIVE IntBitLen(_)
IntBitLen(n) == IF n = 0 THEN 0 ELSE 1 + IntBitLen(n \div 2)

BitLen(a) ==
    IF a = <<>> THEN 0 ELSE LimbBits * (Len(a) - 1) + IntBitLen(a[Len(a)])

\* a * 2^k
Shl(a, k) ==
    IF a = <<>>
    THEN <<>>
    ELSE ZeroLimbs(k \div LimbBits)
            \o Carry([i \in 1..Len(a) |-> a[i] * Pow2(k % LimbBits)])

\* a \div 2^k
Shr(a, k) ==
    LET q == k \div LimbBits
        r == k % LimbBits
        n == Len(a) - q
    IN  IF n <= 0
        THEN <<>>
        ELSE Strip([i \in 1..n |->
                      (a[i + q] \div Pow2(r))
                        + (Limb(a, i + q + 1) % Pow2(r)) * Pow2(LimbBits - r)])

\* a % 2^k
LowBits(a, k) == BigSub(a, Shl(Shr(a, k), k))

RECURSIVE CmpFrom(_, _, _)
CmpFrom(a, b, i) ==
    IF i = 0 THEN 0
    ELSE IF a[i] < b[i] THEN -1
    ELSE IF a[i] > b[i] THEN 1
    ELSE CmpFrom(a, b, i - 1)

\* -1, 0, 1 as a < b, a = b, a > b
BigCmp(a, b) ==
    IF Len(a) < Len(b) THEN -1
    ELSE IF Len(a) > Len(b) THEN 1
    ELSE CmpFrom(a, b, Len(a))

IsOdd(a) == a # <<>> /\ a[1] % 2 = 1

DZero == [m |-> <<>>, e |-> 0]

\* the double of value m * 2^e, for m of at most 53 bits
Exact(m, e) ==
    IF m = <<>>
    THEN DZero
    ELSE [m |-> Shl(m, MantBits - BitLen(m)), e |-> e - (MantBits - BitLen(m))]

\* m * 2^e cut to 53 bits, rounded toward zero
RoundDown(m, e) ==
    IF BitLen(m) <= MantBits
    THEN Exact(m, e)
    ELSE LET k == BitLen(m) - MantBits IN Exact(Shr(m, k), e + k)

\* m * 2^e cut to 53 bits, rounded away from zero
RoundUp(m, e) ==
    IF BitLen(m) <= MantBits
    THEN Exact(m, e)
    ELSE LET k == BitLen(m) - MantBits
             q == Shr(m, k)
             up == BigAdd(q, <<1>>)
         IN  IF LowBits(m, k) = <<>>
             THEN Exact(q, e + k)
             ELSE IF BitLen(up) > MantBits
                  THEN Exact(Shr(up, 1), e + k + 1)
                  ELSE Exact(up, e + k)

\* m * 2^e rounded to the nearest double, ties to even
RoundNearest(m, e) ==
    IF BitLen(m) <= MantBits
    THEN Exact(m, e)
    ELSE LET k == BitLen(m) - MantBits
             q == Shr(m, k)
             c == BigCmp(LowBits(m, k), Shl(<<1>>, k - 1))
         IN  IF c > 0 \/ (c = 0 /\ IsOdd(q))
             THEN RoundUp(m, e)
             ELSE RoundDown(m, e)

DOfInt(n) == Exact(BigOfInt(n), 0)

\* an exact sum m * 2^e of two doubles
ExactSum(a, b) ==
    IF a.m = <<>> THEN [m |-> b.m, e |-> b.e]
    ELSE IF b.m = <<>> THEN [m |-> a.m, e |-> a.e]
    ELSE LET e == IF a.e < b.e THEN a.e ELSE b.e
         IN  [m |-> BigAdd(Shl(a.m, a.e - e), Shl(b.m, b.e - e)), e |-> e]

\* float + float
DAdd(a, b) == LET s == ExactSum(a, b) IN RoundNearest(s.m, s.e)

\* float * float
DMul(a, b) == RoundNearest(BigMul(a.m, b.m), a.e + b.e)

\* -1, 0, 1 as a < b, a = b, a > b
DCmp(a, b) ==
    IF a.m = <<>> \/ b.m = <<>>
    THEN (IF a.m = b.m THEN 0 ELSE IF a.m = <<>> THEN -1 ELSE 1)
    ELSE IF a.e # b.e
         THEN (IF a.e < b.e THEN -1 ELSE 1)
         ELSE BigCmp(a.m, b.m)

\* float - float, for a >= b
DSub(a, b) ==
    IF b.m = <<>> THEN a
    ELSE LET e == IF a.e < b.e THEN a.e ELSE b.e
         IN  RoundNearest(BigSub(Shl(a.m, a.e - e), Shl(b.m, b.e - e)), e)

\* <<a \div d, a % d>> for a small d, from limb i down, rem carried in
RECURSIVE DivFrom(_, _, _, _)
DivFrom(a, d, i, rem) ==
    IF i = 0
    THEN <<<<>>, rem>>
    ELSE LET t == rem * Base + a[i]
             rest == DivFrom(a, d, i - 1, t % d)
         IN  <<rest[1] \o <<t \div d>>, rest[2]>>

BigDivSmall(a, d) ==
    LET r == DivFrom(a, d, Len(a), 0) IN <<Strip(r[1]), r[2]>>

\* the double nearest to num / den (a decimal literal such as 0.1 = 1/10):
\* the quotient is taken with 64 extra bits and a sticky bit for the rest
DOfRatio(num, den) ==
    LET qr == BigDivSmall(Shl(BigOfInt(num), 64), den)
        sticky == IF qr[2] = 0 THEN <<>> ELSE <<1>>
    IN  RoundNearest(BigAdd(Shl(qr[1], 1), sticky), -65)

(* ------------- cell 7: both evaluators at x = 0.1, in doubles ---------- *)
\* range(0,99,1)
NCoeff == 99
Range(n) == [k \in 1..n |-> k - 1]
\* the literal 0.1
Tenth == DOfRatio(1, 10)

\* <<m^0, m^1, ..., m^n>>
RECURSIVE BigPowersFrom(_, _, _)
BigPowersFrom(tbl, m, n) ==
    IF Len(tbl) > n
    THEN tbl
    ELSE BigPowersFrom(Append(tbl, BigMul(tbl[Len(tbl)], m)), m, n)

BigPowers(m, n) == BigPowersFrom(<<<<1>>>>, m, n)

\* the exact powers of the mantissa of 0.1, computed once
TenthPowers == BigPowers(Tenth.m, NCoeff)

BigPow(m, n) ==
    IF m = Tenth.m /\ n <= NCoeff THEN TenthPowers[n + 1] ELSE BigPowers(m, n)[n + 1]

\* x**n for a float x and an int n >= 0, computed by the C library's pow:
\* exact when the power is a double, else either of the two doubles next to
\* the exact power (the library does not promise the nearer one)
DPow(xv, n) ==
    LET m == BigPow(xv.m, n)
    IN  {RoundDown(m, n * xv.e), RoundUp(m, n * xv.e)}

\* c * x**n
FForwardTerm(c, xv, n) == {DMul(DOfInt(c), pw) : pw \in DPow(xv, n)}

\* result = 0.0 ; for n,c in enumerate(coeff):
FForwardEntry(f) ==
    [f EXCEPT !.result = DZero, !.iter = Enumerate(f.coeff), !.it = 0,
              !.ops = NoOps]

\* result = result + c * x**n, with the term given
FForwardBody(f, term) ==
    [f EXCEPT !.result = DAdd(f.result, term),
              !.it = f.it + 1,
              !.ops = [mul |-> f.ops.mul + 1, add |-> f.ops.add + 1,
                       pow |-> f.ops.pow + 1]]

FCallForward ==
    /\ pc = "idle"
    /\ pc' = "forward"
    /\ SetFrame(FForwardEntry(Frame))
    /\ UNCHANGED <<order, p1, p2, ncoeff, p3>>

FForwardStep ==
    /\ pc = "forward"
    /\ it < Len(iter)
    /\ \E term \in FForwardTerm(iter[it + 1][2], x, iter[it + 1][1]) :
            SetFrame(FForwardBody(Frame, term))
    /\ UNCHANGED <<pc, order, p1, p2, ncoeff, p3>>

FForwardReturn ==
    /\ pc = "forward"
    /\ it >= Len(iter)
    /\ p1' = Returned(result, ops, order)
    /\ pc' = "idle"
    /\ ClearLocals
    /\ UNCHANGED <<x, coeff, p2, ncoeff, p3>>

\* result = coeff[-1] ; for c in coeff[-2::-1]:
FReverseEntry(f) ==
    [f EXCEPT !.result = DOfInt(f.coeff[Len(f.coeff)]),
              !.iter = RevSlice(f.coeff), !.it = 0, !.ops = NoOps]

\* mutant: result * x + c in one fused operation, rounded once
FReverseBodyFused(f) ==
    LET c == DOfInt(f.iter[f.it + 1])
        s == ExactSum([m |-> BigMul(f.result.m, f.x.m), e |-> f.result.e + f.x.e],
                      c)
    IN  [f EXCEPT !.result = RoundNearest(s.m, s.e),
                  !.it = f.it + 1,
                  !.ops = [mul |-> f.ops.mul + 1, add |-> f.ops.add + 1,
                           pow |-> f.ops.pow]]

\* result = result * x + c
FReverseBody(f) ==
    LET c == DOfInt(f.iter[f.it + 1])
    IN  [f EXCEPT !.result = DAdd(DMul(f.result, f.x), c),
                  !.it = f.it + 1,
                  !.ops = [mul |-> f.ops.mul + 1, add |-> f.ops.add + 1,
                           pow |-> f.ops.pow]]

FCallReverse ==
    /\ pc = "idle"
    /\ Len(coeff) > 0
    /\ pc' = "reverse"
    /\ SetFrame(FReverseEntry(Frame))
    /\ UNCHANGED <<order, p1, p2, ncoeff, p3>>

FReverseStep ==
    /\ pc = "reverse"
    /\ it < Len(iter)
    /\ SetFrame(FReverseBody(Frame))
    /\ UNCHANGED <<pc, order, p1, p2, ncoeff, p3>>

FReverseReturn ==
    /\ pc = "reverse"
    /\ it >= Len(iter)
    /\ p2' = Returned(result, ops, order)
    /\ pc' = "idle"
    /\ ClearLocals
    /\ UNCHANGED <<x, coeff, p1, ncoeff, p3>>

FNone == [None EXCEPT !.val = DZero]

FInit ==
    /\ x = Tenth
    /\ coeff = Range(NCoeff)
    /\ pc = "idle"
    /\ result = Cleared
    /\ iter = <<>>
    /\ it = 0
    /\ ops = NoOps
    /\ order = <<>>
    /\ p1 = FNone
    /\ p2 = FNone
    /\ ncoeff = 0
    /\ p3 = None

FNext ==
    \/ FCallForward
    \/ FForwardStep
    \/ FForwardReturn
    \/ FCallReverse
    \/ FReverseStep
    \/ FReverseReturn

FloatSpec == FInit /\ [][FNext]_vars

(* -------------------- decimal output of cell 7 ------------------------ *)
\* the natural number written with the decimal digits ds
RECURSIVE BigOfDigits(_)
BigOfDigits(ds) ==
    IF ds = <<>>
    THEN <<>>
    ELSE BigAdd(BigMul(BigOfDigits(SubSeq(ds, 1, Len(ds) - 1)), <<10>>),
                BigOfInt(ds[Len(ds)]))

RECURSIVE BigPow10(_)
BigPow10(k) == IF k = 0 THEN <<1>> ELSE BigMul(BigPow10(k - 1), <<10>>)

BigDist(a, b) == IF BigCmp(a, b) >= 0 THEN BigSub(a, b) ELSE BigSub(b, a)

\* d (of negative exponent) is the double nearest to N * 10^-k: the distance
\* is at most half the gap to the next double on that side
Prints(d, N, k) ==
    LET A == BigMul(BigPow10(k), d.m)
        B == Shl(N, -d.e)
        gapBelowHalved == d.m = Shl(<<1>>, MantBits - 1) /\ BigCmp(B, A) < 0
        dist == Shl(BigDist(A, B), IF gapBelowHalved THEN 2 ELSE 1)
    IN  BigCmp(dist, BigPow10(k)) <= 0

\* d is at least 10^-k and below 10^-(k-1)
OfOrder(d, k) ==
    /\ BigCmp(BigMul(BigPow10(k), d.m), Shl(<<1>>, -d.e)) >= 0
    /\ BigCmp(BigMul(BigPow10(k - 1), d.m), Shl(<<1>>, -d.e)) < 0

\* the three numbers printed by cell 7
PrintedP1 == BigOfDigits(<<1, 2, 3, 4, 5, 6, 7, 9, 0, 1, 2, 3, 4, 5, 6, 7, 8>>)
PrintedP2 == BigOfDigits(<<1, 2, 3, 4, 5, 6, 7, 9, 0, 1, 2, 3, 4, 5, 6, 8, 1>>)
PrintedDiff == BigOfDigits(<<2, 7, 7, 5, 5, 5, 7, 5, 6, 1, 5, 6, 2, 8, 9, 1, 4>>)

\* C12: for coefficients 0..98 and x = 0.1 in doubles the two evaluators
\* return different results; p2 - p1 is 2^-55, of the order of 1e-17, which
\* prints as 2.7755575615628914e-17, and p1 and p2 print as
\* 0.12345679012345678 and 0.12345679012345681.
C12_Divergence ==
    (p1.kind = "value" /\ p2.kind = "value")
        => /\ p1.val # p2.val
           /\ DCmp(p2.val, p1.val) = 1
           /\ LET d == DSub(p2.val, p1.val)
              IN  /\ d = Exact(<<1>>, -55)
                  /\ OfOrder(d, 17)
                  /\ Prints(d, PrintedDiff, 33)
           /\ Prints(p1.val, PrintedP1, 17)
           /\ Prints(p2.val, PrintedP2, 17)

C12_Witness ==
    /\ x = Tenth
    /\ coeff = Range(NCoeff)
    /\ p1.kind = "value"
    /\ p2.kind = "value"

(***************************************************************************)
(* sin_eval_taylor(x, ncoeff).  The notebook gives only its signature      *)
(* (Question 2); its behaviour is the one the specification describes: a   *)
(* non-positive term count is invalid input, otherwise the coefficients    *)
(* c_0 .. c_(ncoeff-1) of the Maclaurin series of sin are built and        *)
(* evaluated at x by Horner's method.                                      *)
(***************************************************************************)
RECURSIVE Factorial(_)
Factorial(n) == IF n = 0 THEN 1 ELSE n * Factorial(n - 1)

\* c_n = 0 for even n, (-1)^((n-1)/2) / n! for odd n
SinCoeff(n) ==
    IF n % 2 = 0
    THEN Zero
    ELSE <<IF ((n - 1) \div 2) % 2 = 0 THEN 1 ELSE -1, Factorial(n)>>

SinCoeffs(k) == [i \in 1..k |-> SinCoeff(i - 1)]

TaylorEntry(f, k) ==
    LET cs == SinCoeffs(k)
    IN  [f EXCEPT !.coeff = cs, !.result = Scalar(cs[k]), !.iter = RevSlice(cs),
                  !.it = 0, !.ops = NoOps]

TaylorBody(f) ==
    LET c == f.iter[f.it + 1]
    IN  [f EXCEPT !.result = VAdd(VMul(f.result, f.x), Scalar(c)),
                  !.it = f.it + 1,
                  !.ops = [mul |-> f.ops.mul + 1, add |-> f.ops.add + 1,
                           pow |-> f.ops.pow]]

\* mutant: a non-positive term count gives the empty sum, 0.0
CallTaylorEmptySum ==
    /\ pc = "idle"
    /\ ncoeff <= 0
    /\ p3' = Returned(Scalar(Zero), NoOps, <<>>)
    /\ UNCHANGED <<x, coeff, pc, result, iter, it, ops, order, p1, p2, ncoeff>>

\* a non-positive term count signals InvalidInput
CallTaylorRaise ==
    /\ pc = "idle"
    /\ ncoeff <= 0
    /\ p3' = Raised("InvalidInput")
    /\ UNCHANGED <<x, coeff, pc, result, iter, it, ops, order, p1, p2, ncoeff>>

CallTaylor ==
    /\ pc = "idle"
    /\ ncoeff > 0
    /\ pc' = "taylor"
    /\ SetFrame(TaylorEntry(Frame, ncoeff))
    /\ UNCHANGED <<order, p1, p2, ncoeff, p3>>

TaylorStep ==
    /\ pc = "taylor"
    /\ it < Len(iter)
    /\ SetFrame(TaylorBody(Frame))
    /\ UNCHANGED <<pc, order, p1, p2, ncoeff, p3>>

TaylorReturn ==
    /\ pc = "taylor"
    /\ it >= Len(iter)
    /\ p3' = Returned(result, ops, order)
    /\ pc' = "idle"
    /\ ClearLocals
    /\ UNCHANGED <<x, coeff, p1, p2, ncoeff>>

TermCounts == -2..MaxTerms

TaylorInit ==
    /\ x \in XInputs
    /\ ncoeff \in TermCounts
    /\ coeff = <<>>
    /\ pc = "idle"
    /\ result = Cleared
    /\ iter = <<>>
    /\ it = 0
    /\ ops = NoOps
    /\ order = <<>>
    /\ p1 = None
    /\ p2 = None
    /\ p3 = None

TaylorNext ==
    \/ CallTaylorRaise
    \/ CallTaylor
    \/ TaylorStep
    \/ TaylorReturn

TaylorSpec == TaylorInit /\ [][TaylorNext]_vars

\* C11: sin_eval_taylor called with a non-positive term count, at any
\* evaluation point, signals InvalidInput and returns no result.
C11_TaylorRejectsNonPositive ==
    ncoeff <= 0
        => /\ pc # "taylor"
           /\ result = Cleared
           /\ p3.kind \in {"none", "raise"}
           /\ p3.kind = "raise" => p3.exc = "InvalidInput"

C11_Witness ==
    /\ ncoeff = 0
    /\ IsArray(x)
    /\ p3.kind = "raise"

====
